---- MODULE Spec2Model ----
(***************************************************************************)
(* A model of leaderboard.py: the Leaderboard class (load_data,            *)
(* update_data, get_distances_for_date, get_steps_for_date,                *)
(* save_gapminder) as the script at the end of the file drives it, one     *)
(* process run after another over the same leaderboard.csv.                *)
(*                                                                         *)
(* Dates are ordinals (day 1 is 1 January of year 1) in a calendar whose   *)
(* years have YearLen days.  A date is held in one of three forms, as in   *)
(* the code: the string date.isoformat() writes, a pandas Timestamp, a     *)
(* datetime.date.  A person's full name is the sequence of its             *)
(* whitespace-delimited tokens.  A row of the wide table is a record       *)
(* [date, metric, vals] whose vals is the dict of the persons with a       *)
(* value; a person outside DOMAIN vals is NaN in the DataFrame.            *)
(***************************************************************************)
EXTENDS Integers, Sequences, FiniteSets, TLC

\* Days in a calendar year of the scaled-down calendar.
YearLen == 3

\* None, for next_date and for the loop's positions before they are set.
NoDate == 0

\* None, for save_gapminder's year argument.
YearNone == 0

----------------------------------------------------------------------------
\* Calendar and the conversions between the forms of a date.

YearOf(n) == ((n - 1) \div YearLen) + 1

DayOfYear(n) == ((n - 1) % YearLen) + 1

Jan1(y) == (y - 1) * YearLen + 1

\* date.isoformat(): the string "YYYY-MM-DD", here its year and day fields.
isoformat(n) == <<"str", YearOf(n), DayOfYear(n)>>

Timestamp(n) == <<"Timestamp", n>>

DateObj(n) == <<"date", n>>

\* pd.to_datetime of one cell: parses a string, takes a date or Timestamp as is.
\* The result is given as the ordinal of the day.
to_datetime(x) == IF x[1] = "str" THEN (x[2] - 1) * YearLen + x[3] ELSE x[2]

\* strftime('%Y%m%d'): eight digits, so the strings order as these numbers do.
strftime(n) == YearOf(n) * 10000 + DayOfYear(n)

\* The clock runs from the first day of year 2 for two days.
FirstToday == YearLen + 1

MaxToday == YearLen + 2

----------------------------------------------------------------------------
\* Persons, metrics and what the remote service answers.

AliceSmith == <<"Alice", "Smith">>

AliceJones == <<"Alice", "Jones">>

BobRoy == <<"Bob", "Roy">>

\* self.activity_types, in the dict's order.
activity_types ==
    << [name |-> "Cycling", actTypeId |-> 2],
       [name |-> "Swimming", actTypeId |-> 26],
       [name |-> "Walking", actTypeId |-> 9],
       [name |-> "Running", actTypeId |-> 1] >>

ActivityNames == {activity_types[i].name : i \in DOMAIN activity_types}

TrackedMetrics == ActivityNames \cup {"Steps"}

Entry(p, v) == [fullname |-> p, value |-> v]

\* metricsMap of one activity answer: with or without ACTIVITY_TOTAL_DISTANCE.
NoBoard == [has |-> FALSE, list |-> <<>>]

BoardOf(list) == [has |-> TRUE, list |-> list]

\* What the service holds for one date: one answer per activity type and the
\* WELLNESS_TOTAL_STEPS list.
RemoteDays ==
    { [Cycling |-> NoBoard, Swimming |-> NoBoard, Walking |-> NoBoard,
       Running |-> NoBoard,
       Steps |-> <<Entry(AliceSmith, 2), Entry(BobRoy, 1)>>],
      [Cycling |-> BoardOf(<<Entry(BobRoy, 1)>>), Swimming |-> NoBoard,
       Walking |-> BoardOf(<<>>), Running |-> NoBoard,
       Steps |-> <<Entry(AliceSmith, 0), Entry(AliceJones, 1)>>],
      [Cycling |-> BoardOf(<<Entry(AliceSmith, 1), Entry(BobRoy, 0)>>),
       Swimming |-> BoardOf(<<Entry(AliceJones, 2)>>),
       Walking |-> BoardOf(<<Entry(BobRoy, 2)>>),
       Running |-> BoardOf(<<Entry(AliceSmith, 1), Entry(AliceSmith, 2)>>),
       Steps |-> <<Entry(BobRoy, 2), Entry(AliceSmith, 1)>>] }

NoRemote == [Cycling |-> NoBoard, Swimming |-> NoBoard, Walking |-> NoBoard,
             Running |-> NoBoard, Steps |-> <<>>]

----------------------------------------------------------------------------
\* Rows and tables.

\* for entry in list: result[fullname] = value  (a later entry overwrites).
RECURSIVE fill_result(_, _)
fill_result(list, vals) ==
    IF list = <<>> THEN vals
    ELSE LET e == Head(list)
         IN fill_result(Tail(list),
                [p \in (DOMAIN vals) \cup {e.fullname} |->
                    IF p = e.fullname THEN e.value ELSE vals[p]])

EmptyVals == [p \in {} |-> 0]

\* The dict one fetch builds: {'date': date.isoformat(), 'metric': name, ...}.
result_row(d, name, list) ==
    [date |-> isoformat(d), metric |-> name, vals |-> fill_result(list, EmptyVals)]

DatesOf(rows) == {to_datetime(rows[i].date) : i \in DOMAIN rows}

MaxDate(rows) == CHOOSE d \in DatesOf(rows) : \A e \in DatesOf(rows) : e <= d

NoneDf == [isNone |-> TRUE, rows |-> <<>>]

Df(rows) == [isNone |-> FALSE, rows |-> rows]

NoFile == [exists |-> FALSE, rows |-> <<>>]

\* Every date cell of the rows rewritten by f.
with_dates(rows, f(_)) == [i \in DOMAIN rows |-> [rows[i] EXCEPT !.date = f(@)]]

AsTimestamp(x) == Timestamp(to_datetime(x))

AsDate(x) == DateObj(to_datetime(x))

AsIso(x) == isoformat(to_datetime(x))

\* The date the run resumes from: lb_df['date'].max() + timedelta(days=1).
resume_same_day(rows) == MaxDate(rows)

resume_date(rows) == MaxDate(rows) + 1

\* load_data: the table and next_date, from the file or, without one, empty
\* and from start_date.
load_data(file, start) ==
    IF file.exists
    THEN LET rows == with_dates(file.rows, AsTimestamp)
         IN [lb_df |-> Df(rows), next_date |-> resume_date(rows)]
    ELSE [lb_df |-> Df(<<>>), next_date |-> start]

\* distances.append(steps): the rows of one date.
day_rows_without_steps(acts, steps) == acts

day_rows(acts, steps) == Append(acts, steps)

\* pd.concat([self.lb_df, result_df], ignore_index=True, sort=False).
concat_replacing(rows, result_df) == result_df

concat(rows, result_df) == rows \o result_df

----------------------------------------------------------------------------
\* save_gapminder's transformation.

\* df[df['date'].dt.year == year]
filter_year(rows, yr) ==
    SelectSeq(rows, LAMBDA r : YearOf(to_datetime(r.date)) = yr)

\* The person columns of the wide table: every key a row's dict ever had.
columns(rows) == UNION {DOMAIN rows[i].vals : i \in DOMAIN rows}

\* df.melt(id_vars=['date', 'metric'], var_name='Person', value_name='Value'):
\* one long row per wide row and person column; Value is <<v>>, or <<>> for NaN.
melt(rows, cols) ==
    { [date |-> to_datetime(rows[i].date), metric |-> rows[i].metric,
       Person |-> p,
       Value |-> IF p \in DOMAIN rows[i].vals THEN <<rows[i].vals[p]>> ELSE <<>>]
      : i \in DOMAIN rows, p \in cols }

\* unstack raises ValueError when (Person, date, metric) is not unique.
has_duplicates(rows) ==
    \E i, j \in DOMAIN rows :
        /\ i # j
        /\ to_datetime(rows[i].date) = to_datetime(rows[j].date)
        /\ rows[i].metric = rows[j].metric

\* set_index(['Person', 'date', 'metric'])['Value'].unstack(): one row per
\* (Person, date), one column per metric of the long table, NaN where the
\* long table has no entry.
unstack(long) ==
    [ix \in {<<l.Person, l.date>> : l \in long} |->
        [m \in {l.metric : l \in long} |->
            LET hit == {l \in long : /\ l.Person = ix[1]
                                     /\ l.date = ix[2]
                                     /\ l.metric = m}
            IN IF hit = {} THEN <<>> ELSE (CHOOSE l \in hit : TRUE).Value]]

\* df.fillna(0)
fillna(wide) ==
    [ix \in DOMAIN wide |->
        [m \in DOMAIN wide[ix] |->
            IF wide[ix][m] = <<>> THEN 0 ELSE wide[ix][m][1]]]

\* df['day'] = strftime('%Y%m%d') of the date, and the date column dropped.
with_day(wide) ==
    [ix \in {<<i[1], strftime(i[2])>> : i \in DOMAIN wide} |->
        wide[CHOOSE i \in DOMAIN wide : i[1] = ix[1] /\ strftime(i[2]) = ix[2]]]

RECURSIVE SortedSeq(_)
SortedSeq(S) ==
    IF S = {} THEN <<>>
    ELSE LET m == CHOOSE x \in S : \A y \in S : x <= y
         IN <<m>> \o SortedSeq(S \ {m})

\* The orders in which rows of one day may come out of sort_values: the
\* default sort kind is not stable, so the earlier sort by Person is not kept.
TieOrders(cols) ==
    {f \in [1..Cardinality(cols) -> cols] :
        \A i, j \in DOMAIN f : i # j => f[i] # f[j]}

\* df.sort_values(by='day'): the (Person, day) labels, ascending by day.
RECURSIVE sort_values(_, _, _)
sort_values(days, tie, index) ==
    IF days = <<>> THEN <<>>
    ELSE LET d == Head(days)
             sel == SelectSeq(tie, LAMBDA p : <<p, d>> \in index)
         IN [i \in 1..Len(sel) |-> <<sel[i], d>>]
            \o sort_values(Tail(days), tie, index)

\* df.groupby(['Person'])[numeric_col].cumsum() at row i of the sorted frame.
RECURSIVE cumsum(_, _, _, _)
cumsum(order, frame, m, i) ==
    LET rest == IF i = 1 THEN 0
                ELSE LET prev == {j \in 1..(i - 1) : order[j][1] = order[i][1]}
                     IN IF prev = {} THEN 0
                        ELSE cumsum(order, frame, m,
                                    CHOOSE j \in prev : \A k \in prev : k <= j)
    IN rest + frame[order[i]][m]

\* df_subset[df_subset[numeric_col] != 0]
keeps_every_row(v) == TRUE

is_kept(v) == v # 0

\* Person.str.split().str[0]
first_token(fullname) == fullname[1]

\* df_subset['Person'].unique(): in order of first appearance.
RECURSIVE unique(_)
unique(s) ==
    IF s = <<>> THEN <<>>
    ELSE LET u == unique(SubSeq(s, 1, Len(s) - 1))
             x == s[Len(s)]
         IN IF \E i \in DOMAIN u : u[i] = x THEN u ELSE Append(u, x)

\* {person: i+1 for i, person in enumerate(unique_persons)}[person]
person_to_color_from_zero(unique_persons, person) ==
    (CHOOSE i \in DOMAIN unique_persons : unique_persons[i] = person) - 1

person_to_color(unique_persons, person) ==
    CHOOSE i \in DOMAIN unique_persons : unique_persons[i] = person

\* The file of one numeric column: the rows with a non-zero value, the value
\* replaced by the person's running total, the person by the first name, and
\* the colour added.
gapminder_rows(order, frame, m) ==
    LET kept == SelectSeq([i \in DOMAIN order |-> i],
                          LAMBDA i : is_kept(frame[order[i]][m]))
        df_subset == [n \in DOMAIN kept |->
                        [Person |-> first_token(order[kept[n]][1]),
                         day |-> order[kept[n]][2],
                         Value |-> cumsum(order, frame, m, kept[n])]]
        unique_persons == unique([n \in DOMAIN df_subset |-> df_subset[n].Person])
    IN [n \in DOMAIN df_subset |->
          [Person |-> df_subset[n].Person,
           day |-> df_subset[n].day,
           Value |-> df_subset[n].Value,
           Color |-> person_to_color(unique_persons, df_subset[n].Person)]]

\* Lines 187-193: the year's rows melted, pivoted on metric, NaN filled with
\* 0, keyed by (Person, day).
pivot(df, cols) == with_day(fillna(unstack(melt(df, cols))))

\* df.columns.drop(['Person', 'day']): the metric columns of the pivoted frame.
numeric_cols(df, cols) == IF cols = {} THEN {} ELSE {df[i].metric : i \in DOMAIN df}

\* The files one call writes, given the pivoted frame, its metric columns and
\* the order of ties: one file per metric column; the other files stay.
gapminder_files(frame, metrics, tie, old) ==
    LET days == SortedSeq({ix[2] : ix \in DOMAIN frame})
        order == sort_values(days, tie, DOMAIN frame)
    IN [m \in DOMAIN old |->
          IF m \in metrics
          THEN [exists |-> TRUE, rows |-> gapminder_rows(order, frame, m)]
          ELSE old[m]]

----------------------------------------------------------------------------
VARIABLES
    today,       \* the system clock's date
    lb_file,     \* leaderboard.csv
    gapminder,   \* the gapminder_<metric>.csv files
    pc,          \* where the running process is
    start_date,  \* self.start_date
    next_date,   \* self.next_date
    lb_df,       \* self.lb_df
    yesterday,   \* update_data's yesterday
    date,        \* update_data's loop variable
    activities,  \* get_distances_for_date's activities
    idx,         \* position in activity_types of the next fetch of the date
    remote,      \* what the service holds for the date being fetched
    calls,       \* requests this process has sent to the service
    year         \* save_gapminder's year, once resolved

vars == <<today, lb_file, gapminder, pc, start_date, next_date, lb_df,
          yesterday, date, activities, idx, remote, calls, year>>

NoOutput == [m \in TrackedMetrics |-> [exists |-> FALSE, rows |-> <<>>]]

\* Leaderboard.__init__ with the script's arguments (startdate=None).
Constructed ==
    /\ start_date' = Jan1(YearOf(today) - 1)
    /\ next_date' = NoDate
    /\ lb_df' = NoneDf
    /\ yesterday' = NoDate
    /\ date' = NoDate
    /\ activities' = <<>>
    /\ idx' = 1
    /\ remote' = NoRemote
    /\ calls' = 0
    /\ year' = YearNone

Init ==
    /\ today = FirstToday
    /\ lb_file = NoFile
    /\ gapminder = NoOutput
    /\ pc = "main"
    /\ start_date = Jan1(YearOf(today) - 1)
    /\ next_date = NoDate
    /\ lb_df = NoneDf
    /\ yesterday = NoDate
    /\ date = NoDate
    /\ activities = <<>>
    /\ idx = 1
    /\ remote = NoRemote
    /\ calls = 0
    /\ year = YearNone

Ended == pc \in {"fin", "failed", "agg_failed"}

\* The clock moves on between two runs of the script.
Tick ==
    /\ Ended
    /\ today < MaxToday
    /\ today' = today + 1
    /\ UNCHANGED <<lb_file, gapminder, pc, start_date, next_date, lb_df,
                   yesterday, date, activities, idx, remote, calls, year>>

\* The script is started again: a new Leaderboard over the same files.
Launch ==
    /\ Ended
    /\ pc' = "main"
    /\ Constructed
    /\ UNCHANGED <<today, lb_file, gapminder>>

\* update_data up to the loop: load if nothing is loaded, yesterday, and the
\* first date of pd.date_range(start=self.next_date, end=yesterday).
UpdateBegin ==
    /\ pc = "main"
    /\ LET loaded == IF lb_df.isNone THEN load_data(lb_file, start_date)
                     ELSE [lb_df |-> lb_df, next_date |-> next_date]
       IN /\ lb_df' = loaded.lb_df
          /\ next_date' = loaded.next_date
          /\ date' = loaded.next_date
    /\ yesterday' = today - 1
    /\ pc' = "loop"
    /\ UNCHANGED <<today, lb_file, gapminder, start_date, activities, idx,
                   remote, calls, year>>

\* The for statement: the next date of the range, or the end of the loop.
ForDate ==
    /\ pc = "loop"
    /\ IF date <= yesterday
       THEN /\ pc' = "fetch"
            /\ activities' = <<>>
            /\ idx' = 1
            /\ \E r \in RemoteDays : remote' = r
       ELSE /\ pc' = "persist"
            /\ UNCHANGED <<activities, idx, remote>>
    /\ UNCHANGED <<today, lb_file, gapminder, start_date, next_date, lb_df,
                   yesterday, date, calls, year>>

\* One iteration of get_distances_for_date's loop: the request, which may
\* raise, and the row, kept only if the answer has ACTIVITY_TOTAL_DISTANCE.
GetActivity ==
    /\ pc = "fetch"
    /\ idx <= Len(activity_types)
    /\ calls' = calls + 1
    /\ \E ok \in BOOLEAN :
        IF ok
        THEN LET name == activity_types[idx].name
                 leaderboard == remote[name]
             IN /\ activities' =
                      IF leaderboard.has
                      THEN Append(activities,
                                  result_row(date, name, leaderboard.list))
                      ELSE activities
                /\ idx' = idx + 1
                /\ pc' = "fetch"
        ELSE /\ pc' = "failed"
             /\ UNCHANGED <<activities, idx>>
    /\ UNCHANGED <<today, lb_file, gapminder, start_date, next_date, lb_df,
                   yesterday, date, remote, year>>

\* get_steps_for_date, which may raise, then the date's rows are appended to
\* the table and the loop goes to the next date.
GetSteps ==
    /\ pc = "fetch"
    /\ idx > Len(activity_types)
    /\ calls' = calls + 1
    /\ \E ok \in BOOLEAN :
        IF ok
        THEN LET steps == result_row(date, "Steps", remote.Steps)
                 result_df == day_rows(activities, steps)
             IN /\ lb_df' = Df(concat(lb_df.rows, result_df))
                /\ date' = date + 1
                /\ pc' = "loop"
        ELSE /\ pc' = "failed"
             /\ UNCHANGED <<lb_df, date>>
    /\ UNCHANGED <<today, lb_file, gapminder, start_date, next_date,
                   yesterday, activities, idx, remote, year>>

\* After the loop: set_index('date') raises KeyError on the empty DataFrame;
\* otherwise the dates become datetime.date and the table is written.
Persist ==
    /\ pc = "persist"
    /\ IF lb_df.rows = <<>>
       THEN /\ pc' = "failed"
            /\ UNCHANGED <<lb_df, lb_file>>
       ELSE /\ lb_df' = Df(with_dates(lb_df.rows, AsDate))
            /\ lb_file' = [exists |-> TRUE,
                           rows |-> with_dates(lb_df.rows, AsIso)]
            /\ pc' = "save"
    /\ UNCHANGED <<today, gapminder, start_date, next_date, yesterday, date,
                   activities, idx, remote, calls, year>>

\* save_gapminder(year): df['date'] raises KeyError on the empty DataFrame and
\* unstack raises on a repeated (date, metric); otherwise one file is written
\* per metric column.
save_gapminder(yr) ==
    /\ pc = "save"
    /\ LET loaded == IF lb_df.isNone THEN load_data(lb_file, start_date)
                     ELSE [lb_df |-> lb_df, next_date |-> next_date]
           rows == loaded.lb_df.rows
           y == IF yr = YearNone THEN YearOf(today) - 1 ELSE yr
       IN /\ next_date' = loaded.next_date
          /\ year' = y
          /\ IF rows = <<>>
             THEN /\ lb_df' = loaded.lb_df
                  /\ pc' = "agg_failed"
                  /\ UNCHANGED gapminder
             ELSE LET all == with_dates(rows, AsTimestamp)
                      df == filter_year(all, y)
                      cols == columns(all)
                      frame == pivot(df, cols)
                      metrics == numeric_cols(df, cols)
                  IN /\ lb_df' = Df(all)
                     /\ IF cols # {} /\ has_duplicates(df)
                        THEN /\ pc' = "agg_failed"
                             /\ UNCHANGED gapminder
                        ELSE /\ pc' = "fin"
                             /\ \E tie \in TieOrders(cols) :
                                  gapminder' =
                                      gapminder_files(frame, metrics, tie,
                                                      gapminder)
    /\ UNCHANGED <<today, lb_file, start_date, yesterday, date, activities,
                   idx, remote, calls>>

\* The script's call: leaderboard.save_gapminder().
SaveGapminder == save_gapminder(YearNone)

Next == Tick \/ Launch \/ UpdateBegin \/ ForDate \/ GetActivity \/ GetSteps
        \/ Persist \/ SaveGapminder

Spec == Init /\ [][Next]_vars

----------------------------------------------------------------------------
\* save_gapminder on its own: called on a new Leaderboard over a snapshot
\* file drawn from a bounded family (or over no file), with a year argument.

\* The Steps dicts a day of the first year of a snapshot may hold.
DayDicts ==
    { [p \in D |-> IF p = AliceSmith THEN a ELSE IF p = AliceJones THEN 1 ELSE 2]
      : D \in {{AliceSmith}, {AliceSmith, BobRoy},
                {AliceSmith, AliceJones, BobRoy}},
        a \in {0, 1} }

\* The Steps dicts a later day of a snapshot may hold.
LaterDicts ==
    { [p \in {AliceSmith, BobRoy} |-> IF p = AliceSmith THEN 1 ELSE 2],
      [p \in {AliceSmith, AliceJones} |-> IF p = AliceSmith THEN 0 ELSE 1] }

DictsOn(d) == IF d <= YearLen THEN DayDicts ELSE LaterDicts

\* A snapshot of the days 1..n: each day's Steps row and, with cyc, a Cycling
\* row on the first day, in the order update_data writes them.
RECURSIVE snapshot_rows(_, _, _)
snapshot_rows(f, cyc, d) ==
    IF d > Len(f) THEN <<>>
    ELSE (IF cyc /\ d = 1
          THEN <<[date |-> isoformat(d), metric |-> "Cycling",
                  vals |-> [p \in {BobRoy} |-> 1]]>>
          ELSE <<>>)
         \o <<[date |-> isoformat(d), metric |-> "Steps", vals |-> f[d]]>>
         \o snapshot_rows(f, cyc, d + 1)

\* The snapshot file of the days 1..Len(f); without a day, no file.
snapshot_file(f, cyc) ==
    IF f = <<>> THEN NoFile
    ELSE [exists |-> TRUE, rows |-> snapshot_rows(f, cyc, 1)]

InitAgg ==
    /\ today = FirstToday
    /\ \E n \in 0..(YearLen + 1) :
         \E f \in [1..n -> DayDicts \cup LaterDicts], cyc \in BOOLEAN :
            /\ \A d \in 1..n : f[d] \in DictsOn(d)
            /\ lb_file = snapshot_file(f, cyc)
    /\ gapminder = NoOutput
    /\ pc = "save"
    /\ start_date = Jan1(YearOf(today) - 1)
    /\ next_date = NoDate
    /\ lb_df = NoneDf
    /\ yesterday = NoDate
    /\ date = NoDate
    /\ activities = <<>>
    /\ idx = 1
    /\ remote = NoRemote
    /\ calls = 0
    /\ year = YearNone

AggSave == \E yr \in {YearNone, YearOf(FirstToday)} : save_gapminder(yr)

SpecAgg == InitAgg /\ [][AggSave]_vars

----------------------------------------------------------------------------
\* What the claims speak of.

KeyOf(r) == <<to_datetime(r.date), r.metric>>

NoRepeatedKey(rows) ==
    \A i, j \in DOMAIN rows : i # j => KeyOf(rows[i]) # KeyOf(rows[j])

\* The number of rows of the table for date d and metric m.
RowCount(rows, d, m) ==
    Cardinality({i \in DOMAIN rows : KeyOf(rows[i]) = <<d, m>>})

\* The run's range is empty: it starts with next_date > end_date.
NothingToFetch == next_date # NoDate /\ yesterday # NoDate /\ next_date > yesterday

\* C1: if a fetch of date D fails after N earlier dates of the same run were
\* fetched, the persisted snapshot after the run holds the rows of exactly
\* those N dates besides what was persisted before, and no row of D.
C1_PartialFailurePersistence ==
    (pc = "failed" /\ calls > 0) =>
        /\ DatesOf(lb_file.rows) = DatesOf(lb_df.rows)
        /\ date \notin DatesOf(lb_file.rows)

\* C2: a run that starts with next_date > end_date sends no request, appends
\* no row and ends with the file's rows as they were; a run started on the
\* day a run has persisted through yesterday is such a run.
C2_ResumptionIdempotence ==
    [][ /\ (pc = "main" /\ lb_file.exists
                /\ MaxDate(lb_file.rows) = today - 1)
            => (next_date' > yesterday' /\ lb_df'.rows = with_dates(lb_file.rows, AsTimestamp))
        /\ (pc = "loop" /\ date = next_date /\ NothingToFetch)
            => (pc' = "persist" /\ lb_df' = lb_df /\ calls' = 0)
        /\ (pc = "persist" /\ NothingToFetch)
            => /\ pc' = "save"
               /\ calls' = 0
               /\ lb_file' = lb_file
               /\ Len(lb_df'.rows) = Len(lb_file.rows) ]_vars

C2_Witness ==
    /\ pc = "save"
    /\ NothingToFetch
    /\ calls = 0
    /\ lb_file.exists
    /\ MaxDate(lb_file.rows) = today - 1

\* C3: neither the table in memory nor the file ever holds two rows with the
\* same (date, metric).
C3_SnapshotKeyUniqueness ==
    NoRepeatedKey(lb_df.rows) /\ NoRepeatedKey(lb_file.rows)

C3_Witness ==
    /\ pc = "fin"
    /\ calls > 0
    /\ next_date > start_date
    /\ Cardinality(DatesOf(lb_file.rows)) = YearLen + 1

\* C4: a successful run leaves every row the file held in place, unchanged,
\* and every row it adds has a date after every date the file held.
C4_AppendOnly ==
    [][ (pc = "persist" /\ pc' = "save") =>
            LET old == lb_file.rows
                new == lb_file'.rows
            IN /\ Len(old) <= Len(new)
               /\ SubSeq(new, 1, Len(old)) = old
               /\ \A i \in (Len(old) + 1)..Len(new) :
                    \A j \in 1..Len(old) :
                        to_datetime(new[i].date) > to_datetime(old[j].date) ]_vars

C4_Witness ==
    /\ pc = "save"
    /\ \E i, j \in DOMAIN lb_file.rows :
        /\ to_datetime(lb_file.rows[i].date) < next_date
        /\ to_datetime(lb_file.rows[j].date) >= next_date
        /\ lb_file.rows[i].vals # lb_file.rows[j].vals

\* C10 as amended: a date has no row in the table or exactly one Steps row and
\* at most one row of each activity metric (one exactly when the answer had
\* ACTIVITY_TOTAL_DISTANCE); while fetches of a date are pending, and after
\* one has failed, the table has no row of that date.
C10_PerDateRows ==
    /\ \A d \in DatesOf(lb_df.rows) :
        /\ RowCount(lb_df.rows, d, "Steps") = 1
        /\ \A a \in ActivityNames : RowCount(lb_df.rows, d, a) <= 1
    /\ \A i \in DOMAIN lb_df.rows : lb_df.rows[i].metric \in TrackedMetrics
    /\ (pc = "loop" /\ calls > 0) =>
          \A a \in ActivityNames :
              RowCount(lb_df.rows, date - 1, a) = IF remote[a].has THEN 1 ELSE 0
    /\ (pc = "fetch" \/ (pc = "failed" /\ calls > 0)) =>
          date \notin DatesOf(lb_df.rows)

C10_Witness ==
    /\ pc = "loop"
    /\ calls > 0
    /\ RowCount(lb_df.rows, date - 1, "Steps") = 1
    /\ RowCount(lb_df.rows, date - 1, "Cycling") = 1
    /\ RowCount(lb_df.rows, date - 1, "Swimming") = 0

\* C10 as stated: a date has no row in the table or exactly one row of each of
\* the five tracked metrics.
C10_AllFiveMetrics ==
    \A d \in DatesOf(lb_df.rows) :
        \A m \in TrackedMetrics : RowCount(lb_df.rows, d, m) = 1

----------------------------------------------------------------------------
\* What the claims about save_gapminder speak of.  A person of an output file
\* is a first name; the person's daily value is what the snapshot's columns
\* of that first name record for the day (nothing recorded counts 0).

AllPersons == {AliceSmith, AliceJones, BobRoy}

DayOfRow(r) == strftime(to_datetime(r.date))

InTargetYear(r) == YearOf(to_datetime(r.date)) = year

\* The cells (row, column) of the snapshot that record a value of person P
\* for metric m on a day of the target year from day lo to day hi.
Cells(P, m, lo, hi) ==
    { c \in (DOMAIN lb_df.rows) \X AllPersons :
        LET r == lb_df.rows[c[1]]
        IN /\ r.metric = m
           /\ InTargetYear(r)
           /\ lo <= DayOfRow(r) /\ DayOfRow(r) <= hi
           /\ c[2] \in DOMAIN r.vals
           /\ Head(c[2]) = P }

RECURSIVE SumCells(_)
SumCells(S) ==
    IF S = {} THEN 0
    ELSE LET c == CHOOSE x \in S : TRUE
         IN lb_df.rows[c[1]].vals[c[2]] + SumCells(S \ {c})

DailyValue(P, m, day) == SumCells(Cells(P, m, day, day))

CumulativeValue(P, m, day) == SumCells(Cells(P, m, 0, day))

Written(m) == gapminder[m].exists

Out(m) == gapminder[m].rows

NoTargetRows == \A i \in DOMAIN lb_df.rows : ~InTargetYear(lb_df.rows[i])

\* The full name q is the only column of its first name.
OnlyOfItsName(q) ==
    \A i \in DOMAIN lb_df.rows :
        \A o \in DOMAIN lb_df.rows[i].vals : Head(o) = Head(q) => o = q

\* Person q's recorded value for Steps on day d of the target year is v.
StepsOn(q, d, v) ==
    \E i \in DOMAIN lb_df.rows :
        LET r == lb_df.rows[i]
        IN /\ r.metric = "Steps"
           /\ to_datetime(r.date) = Jan1(year) + d - 1
           /\ q \in DOMAIN r.vals
           /\ r.vals[q] = v

\* C5: in a metric's output, the value on a row (P, day) is the sum of P's
\* daily values over the target year's days up to and including that day, and
\* the value does not decrease as P's day increases.
C5_CumulativeMonotonicity ==
    pc = "fin" =>
        \A m \in TrackedMetrics :
            Written(m) =>
                /\ \A n \in DOMAIN Out(m) :
                      Out(m)[n].Value =
                          CumulativeValue(Out(m)[n].Person, m, Out(m)[n].day)
                /\ \A i, j \in DOMAIN Out(m) :
                      (Out(m)[i].Person = Out(m)[j].Person
                          /\ Out(m)[i].day <= Out(m)[j].day)
                      => Out(m)[i].Value <= Out(m)[j].Value

\* C6: a metric's output has a row (P, day) only if P's daily value on that
\* day is recorded and not zero, so a person with no such day has no row; and
\* values a, 0, b (a and b not zero) on the three first days give the person
\* two rows, a and a + b.
C6_ZeroDrop ==
    pc = "fin" =>
        /\ \A m \in TrackedMetrics :
              Written(m) =>
                  \A n \in DOMAIN Out(m) :
                      /\ DailyValue(Out(m)[n].Person, m, Out(m)[n].day) # 0
                      /\ Cells(Out(m)[n].Person, m, Out(m)[n].day,
                               Out(m)[n].day) # {}
        /\ \A q \in AllPersons : \A a, b \in 1..2 :
              (/\ OnlyOfItsName(q)
               /\ StepsOn(q, 1, a) /\ StepsOn(q, 2, 0) /\ StepsOn(q, 3, b)
               /\ \A d \in 4..YearLen : \A v \in 1..2 : ~StepsOn(q, d, v))
              => LET mine == SelectSeq(Out("Steps"),
                                       LAMBDA r : r.Person = Head(q))
                 IN /\ Len(mine) = 2
                    /\ mine[1].day = strftime(Jan1(year))
                    /\ mine[1].Value = a
                    /\ mine[2].day = strftime(Jan1(year) + 2)
                    /\ mine[2].Value = a + b

C6_Witness ==
    /\ pc = "fin"
    /\ OnlyOfItsName(AliceSmith)
    /\ StepsOn(AliceSmith, 1, 1)
    /\ StepsOn(AliceSmith, 2, 0)
    /\ StepsOn(AliceSmith, 3, 1)
    /\ \E i \in DOMAIN lb_df.rows : BobRoy \in DOMAIN lb_df.rows[i].vals
    /\ Len(Out("Steps")) >= 3

\* The place of the first row of the person of row n in the file.
FirstRowOf(rows, n) ==
    CHOOSE k \in DOMAIN rows :
        /\ rows[k].Person = rows[n].Person
        /\ \A l \in DOMAIN rows : rows[l].Person = rows[n].Person => k <= l

\* C7: in a metric's output a person's colour is 1 plus the number of distinct
\* persons whose first row comes before the person's first row.
C7_ColorAssignment ==
    pc = "fin" =>
        \A m \in TrackedMetrics :
            Written(m) =>
                \A n \in DOMAIN Out(m) :
                    Out(m)[n].Color =
                        1 + Cardinality({Out(m)[k].Person :
                                k \in 1..(FirstRowOf(Out(m), n) - 1)})

C7_Witness ==
    /\ pc = "fin"
    /\ Written("Steps")
    /\ \E i, j, k \in DOMAIN Out("Steps") :
        /\ i < j /\ j < k
        /\ Out("Steps")[i].Person = "Bob" /\ Out("Steps")[i].Color = 1
        /\ Out("Steps")[j].Person = "Alice" /\ Out("Steps")[j].Color = 2
        /\ Out("Steps")[k].Person = "Alice" /\ Out("Steps")[k].Color = 2
        /\ Out("Steps")[j].day = Out("Steps")[k].day

\* C8: no two rows of a metric's output have the same (Person, day).
C8_OutputRowUniqueness ==
    pc = "fin" =>
        \A m \in TrackedMetrics :
            \A i, j \in DOMAIN Out(m) :
                i # j => <<Out(m)[i].Person, Out(m)[i].day>>
                         # <<Out(m)[j].Person, Out(m)[j].day>>

\* C9: with an empty snapshot, or one without a row of the target year,
\* save_gapminder ends without error and writes a file without rows for each
\* tracked metric.
C9_EmptyInputAggregation ==
    (pc \in {"fin", "agg_failed"} /\ NoTargetRows) =>
        /\ pc = "fin"
        /\ \A m \in TrackedMetrics : Written(m) /\ Out(m) = <<>>

====
